---- MODULE Spec2Model ----
(***************************************************************************)
(* A model of cppsqlite, the C++ wrapper for sqlite3                       *)
(* (src/headers/cppsqlite.h and the older copy                             *)
(* src/cppsqlite/headers/cppsqlite.h).                                     *)
(*                                                                         *)
(* The wrapper's state is the handle each Connection (m_db) and each       *)
(* Statement (m_stmt) holds in its std::unique_ptr.  The sqlite3 engine is *)
(* the environment: it hands out fresh handles, answers every call with a  *)
(* result code chosen nondeterministically among those the call can        *)
(* return, and keeps the set of sessions and compiled statements that are  *)
(* live.  Every public operation is one action; the native calls and the   *)
(* unique_ptr stores it performs are recorded, in program order, in        *)
(* `events` (the events of the last operation only).                       *)
(***************************************************************************)
EXTENDS Integers, Sequences, FiniteSets, TLC

\* ------------------------------------------------------------------ bounds
\* Sessions the engine can hold open at once.
MaxDb == 2
\* Compiled statements the engine can hold at once.
MaxStmt == 2
\* Results (of step, of a failed bind) a watched pass over a statement can have.
MaxPassLen == 2

\* ------------------------------------------------------------- the objects
Conns == {"c1", "c2"}
Stmts == {"s1", "s2"}
\* The Statement the program of Spec works with (the other one is constructed
\* and left alone).
OneStmt == {"s1"}
Headers == {"headers/cppsqlite.h", "cppsqlite/headers/cppsqlite.h"}
NewHeader == "headers/cppsqlite.h"

nullptr == 0
DbHandles == 1..MaxDb
StmtHandles == 1..MaxStmt
\* The zero-based parameter indices a caller binds, and the values it binds
\* with each overload (an int, a long long int, the text of a std::string).
Indices == {0, 1}
BindValues(kind) == CASE kind = "int" -> {41} [] kind = "int64" -> {42} [] OTHER -> {43}

\* ------------------------------------------------------- sqlite3 results
SQLITE_OK == "SQLITE_OK"
SQLITE_ROW == "SQLITE_ROW"
SQLITE_DONE == "SQLITE_DONE"
SQLITE_ERROR == "SQLITE_ERROR"
SQLITE_BUSY == "SQLITE_BUSY"
SQLITE_MISUSE == "SQLITE_MISUSE"
SQLITE_CANTOPEN == "SQLITE_CANTOPEN"
SQLITE_NOMEM == "SQLITE_NOMEM"
SQLITE_RANGE == "SQLITE_RANGE"
SQLITE_CONSTRAINT == "SQLITE_CONSTRAINT"

VARIABLES
    hdr,        \* the header the program is built with
    alive,      \* which Connection and Statement objects are constructed
    m_db,       \* Connection::m_db.get() of each Connection
    m_stmt,     \* Statement::m_stmt.get() of each Statement
    engine,     \* the engine: live sessions and statements, calls of close / finalize
    dbOwner,    \* the Connection whose open produced each live session
    abandoned,  \* live sessions a Connection let go of under a Statement, and how
    events,     \* the native calls and unique_ptr stores of the last operation
    last,       \* the last operation and how it ended
    halted,     \* the process died: a failed assert or a crash in the engine
    obs         \* what a program that watches the engine more closely has seen

vars == <<hdr, alive, m_db, m_stmt, engine, dbOwner, abandoned, events, last, halted, obs>>

\* ------------------------------------------------------------------ events
\* One native call (or one store into a unique_ptr, fn = "store") of an
\* operation: fn the function, h the handle passed, idx/val the other
\* arguments, out the handle the call produced, res the result code it
\* returned ("-" when the code does not read one).
Ev(fn, h) ==
    [fn |-> fn, h |-> h, idx |-> -1, val |-> 0, out |-> nullptr, res |-> "-"]

EvRes(fn, h, res) ==
    [fn |-> fn, h |-> h, idx |-> -1, val |-> 0, out |-> nullptr, res |-> res]

EvOut(fn, h, out, res) ==
    [fn |-> fn, h |-> h, idx |-> -1, val |-> 0, out |-> out, res |-> res]

EvArg(fn, h, idx, val, res) ==
    [fn |-> fn, h |-> h, idx |-> idx, val |-> val, out |-> nullptr, res |-> res]

\* The calls a Statement operation makes on its compiled-statement handle.
StmtFns == {"sqlite3_finalize", "sqlite3_bind_int", "sqlite3_bind_int64",
            "sqlite3_bind_text", "sqlite3_step", "sqlite3_reset",
            "sqlite3_column_int", "sqlite3_column_int64", "sqlite3_column_text",
            "sqlite3_column_bytes", "sqlite3_column_blob", "sqlite3_db_handle"}

\* ------------------------------------------------------------- unique_ptr
\* Mutant of Deleter: the owner lets go of the pointer without the deleter
\* (release() where reset() was meant).
DeleterNever(fn, p) == <<>>

\* ~unique_ptr() and the release half of reset(): the deleter is called on
\* the stored pointer only when it is not null.
Deleter(fn, p) == IF p = nullptr THEN <<>> ELSE <<Ev(fn, p)>>

\* Mutant of MoveAssign: the local handle is copied, not moved from, so its
\* destructor releases the handle that was just stored.
MoveAssignKeepsSource(fn, old, new) ==
    <<Ev("store", new)>> \o (IF old = nullptr THEN <<>> ELSE <<Ev(fn, old)>>)
                        \o (IF new = nullptr THEN <<>> ELSE <<Ev(fn, new)>>)

\* Mutant of MoveAssign: the old handle is released before the new one is stored.
MoveAssignReleaseFirst(fn, old, new) ==
    (IF old = nullptr THEN <<>> ELSE <<Ev(fn, old)>>) \o <<Ev("store", new)>>

\* m = std::move(localHandle): reset(u.release()) stores the new pointer
\* and then calls the deleter on the old one; the moved-from localHandle
\* holds nullptr, so its destructor calls nothing.
MoveAssign(fn, old, new) == <<Ev("store", new)>> \o Deleter(fn, old) \o Deleter(fn, nullptr)

\* ------------------------------------------------------------- the engine
\* A handle is a slot of the engine; a released slot may be handed out again.
Min(S) == CHOOSE x \in S : \A y \in S : x <= y

FreeDb(e) == DbHandles \ e.dbLive

FreeStmt(e) == StmtHandles \ e.stmtLive

\* sqlite3_close: the session is closed unless compiled statements on it are
\* still unfinalized; then it answers SQLITE_BUSY and the session stays open
\* (closed: the sessions close was called on and that stayed open).  A second
\* call on the same session, or a call on a handle that is no live session,
\* is recorded in twice; a call on a null handle in nullDeleted.
EngineClose(e, h) ==
    IF h = nullptr
    THEN [e EXCEPT !.nullDeleted = TRUE]
    ELSE IF h \notin e.dbLive \/ h \in e.closed
    THEN [e EXCEPT !.twice = @ \cup {"sqlite3_close"}]
    ELSE IF \E t \in e.stmtLive : e.stmtDb[t] = h
    THEN [e EXCEPT !.closed = @ \cup {h}]
    ELSE [e EXCEPT !.dbLive = @ \ {h}]

\* sqlite3_finalize: the compiled statement is released.
EngineFinalize(e, t) ==
    IF t = nullptr
    THEN [e EXCEPT !.nullDeleted = TRUE]
    ELSE IF t \notin e.stmtLive
    THEN [e EXCEPT !.twice = @ \cup {"sqlite3_finalize"}]
    ELSE [e EXCEPT !.stmtLive = @ \ {t}, !.stmtDb[t] = nullptr]

\* sqlite3_open / sqlite3_prepare_v2 producing a handle: it is live from then on.
EngineOpened(e, h) ==
    IF h = nullptr THEN e
    ELSE [e EXCEPT !.dbLive = @ \cup {h}]

EnginePrepared(e, db, t) ==
    IF t = nullptr THEN e
    ELSE [e EXCEPT !.stmtLive = @ \cup {t}, !.stmtDb[t] = db]

EngineStep(e, ev) ==
    CASE ev.fn = "sqlite3_close" -> EngineClose(e, ev.h)
      [] ev.fn = "sqlite3_finalize" -> EngineFinalize(e, ev.h)
      [] ev.fn = "sqlite3_open" -> EngineOpened(e, ev.out)
      [] ev.fn = "sqlite3_prepare_v2" -> EnginePrepared(e, ev.h, ev.out)
      [] OTHER -> e

RECURSIVE ApplyEvents(_, _)
ApplyEvents(evs, e) ==
    IF evs = <<>> THEN e
    ELSE ApplyEvents(Tail(evs), EngineStep(e, Head(evs)))

\* The sessions on which the events use a compiled statement although the
\* session has been passed to sqlite3_close (e: the engine before the events).
StaleIn(evs, e) ==
    {e.stmtDb[evs[i].h] : i \in {j \in 1..Len(evs) :
        /\ evs[j].fn \in StmtFns
        /\ evs[j].h # nullptr
        /\ e.stmtDb[evs[j].h] # nullptr
        /\ e.stmtDb[evs[j].h] \in e.closed}}

\* The Statements that hold a compiled statement on session h.
HeldOn(h) == {s \in Stmts : /\ alive[s] /\ m_stmt[s] # nullptr
                            /\ engine.stmtDb[m_stmt[s]] = h}

\* dbOwner and abandoned speak of live sessions only.
OwnerAfter(e, raw, c) ==
    [h \in DbHandles |-> IF h \notin e.dbLive THEN "-"
                         ELSE IF h = raw THEN c ELSE dbOwner[h]]

AbandonedAfter(e, marked, how) ==
    [h \in DbHandles |-> IF h \notin e.dbLive THEN "-"
                         ELSE IF h \in marked THEN how ELSE abandoned[h]]

\* The last operation: op on object obj, called with idx / val (bind), the
\* object holding handle was; how it ended (outcome: "return", "throw" a
\* SqlException, "assert" failed, "crash" in the engine), the errorCode of
\* the SqlException (code), what it returned (ret; len: the size of a returned
\* std::string, -1 otherwise), and the released sessions whose compiled
\* statements it used (stale).
Done(op, obj, was, outcome, code, ret) ==
    [op |-> op, obj |-> obj, idx |-> -1, val |-> 0, was |-> was, stale |-> {},
     outcome |-> outcome, code |-> code, ret |-> ret, len |-> -1]

\* ------------------------------------------------------------- observation
\* The program of Spec looks at nothing but the outcome of each operation.
Unobserved == [mode |-> "off"]

\* The diagnostic text of a session after a call that returned res
\* (sqlite3_errmsg describes the most recent call on the session).
Text(res) == IF res \in {SQLITE_OK, SQLITE_ROW, SQLITE_DONE} THEN "not an error" ELSE res

\* The session a native call works on (e: the engine at the call).
SessionOf(ev, e) ==
    IF ev.fn = "sqlite3_open" THEN ev.out
    ELSE IF ev.fn \in StmtFns THEN (IF ev.h = nullptr THEN nullptr ELSE e.stmtDb[ev.h])
    ELSE ev.h

\* The sessions' diagnostic texts after the calls evs, from texts d and engine
\* e: every call that returns a result code leaves its text in its session.
RECURSIVE DiagAfter(_, _, _)
DiagAfter(evs, d, e) ==
    IF evs = <<>> THEN d
    ELSE LET ev == Head(evs)
             h == SessionOf(ev, IF ev.fn = "sqlite3_open" THEN e ELSE EngineStep(e, ev))
         IN DiagAfter(Tail(evs),
                      IF ev.res = "-" \/ h = nullptr THEN d ELSE [d EXCEPT ![h] = Text(ev.res)],
                      EngineStep(e, ev))

\* The const char* sqlite3_errmsg returns in call number i of evs: buf the
\* session whose buffer it points into (sqlite3_errmsg(NULL) returns a static
\* string: no buffer), text what it reads as at that moment.
ErrmsgPointer(evs, i, d, e) ==
    LET h == evs[i].h
        before == SubSeq(evs, 1, i - 1)
    IN [buf |-> h,
        text |-> IF h = nullptr THEN Text(SQLITE_NOMEM)
                 ELSE IF h \notin ApplyEvents(before, e).dbLive THEN "freed"
                 ELSE DiagAfter(before, d, e)[h]]

\* Mutant of SqlException: errorMessage is the const char* itself.
SqlExceptionKeepsPointer(result, msg) ==
    [errorCode |-> result,
     errorMessage |-> [chars |-> IF msg.buf = nullptr THEN msg.text ELSE "", buf |-> msg.buf]]

\* SqlException(result, msg): errorCode(result), errorMessage(msg); the
\* std::string copies the characters msg points to (buf: the engine buffer
\* errorMessage still refers to, none).
SqlException(result, msg) ==
    [errorCode |-> result,
     errorMessage |-> [chars |-> msg.text, buf |-> nullptr]]

\* What errorMessage of exception x reads as, with the sessions' texts d and
\* the engine e of the moment.
MessageText(x, d, e) ==
    IF x.errorMessage.buf = nullptr THEN x.errorMessage.chars
    ELSE IF x.errorMessage.buf \notin e.dbLive THEN "freed"
    ELSE d[x.errorMessage.buf]

\* No exception has been caught yet.
NoException == [errorCode |-> "-", errorMessage |-> [chars |-> "", buf |-> nullptr]]

\* A program that keeps the last SqlException it caught: diag the sessions'
\* diagnostic texts, caught the exception, read the text sqlite3_errmsg pointed
\* to when the exception was built and at the session it was read from.
WatchErrors ==
    [mode |-> "errors", diag |-> [h \in DbHandles |-> "-"],
     caught |-> NoException, read |-> "-", at |-> nullptr]

ErrmsgCalls(evs) == {i \in 1..Len(evs) : evs[i].fn = "sqlite3_errmsg"}

ObserveErrors(o, evs, l, e, e2) ==
    LET d2 == [h \in DbHandles |-> IF h \in e2.dbLive THEN DiagAfter(evs, o.diag, e)[h] ELSE "-"]
    IN IF l.outcome = "throw" /\ ErrmsgCalls(evs) # {}
       THEN LET p == ErrmsgPointer(evs, Min(ErrmsgCalls(evs)), o.diag, e)
            IN {[o EXCEPT !.diag = d2, !.caught = SqlException(l.code, p),
                          !.read = p.text, !.at = p.buf]}
       ELSE {[o EXCEPT !.diag = d2]}

\* The values of the one table column of the in-memory database the passes
\* run on (the value bind(0, 41) binds), and the two statements prepared on
\* it: "select" reads the rows whose column equals parameter 1, "insert" adds
\* a row with parameter 1; the column is UNIQUE.
PassValues == {41}

SqlTexts == {"select", "insert"}

\* No pass is on record.
NoPass == [n |-> 0, bound |-> -1, data |-> {}, touched |-> FALSE, seq |-> <<>>]

\* A program that runs passes (bind, step until false, reset) over its
\* Statement: table the rows of the database, sql the statement compiled, bound
\* the value of parameter 1 (0: NULL), pos the state of the compiled statement,
\* cur the results of the pass so far (shape: "bad" once it is not binds
\* followed by steps up to the first false or error), touched whether execute
\* changed the table since the pass began, passes how many passes were
\* completed, first the first of them and latest the one a reset has just
\* completed.
WatchPasses ==
    [mode |-> "passes", table |-> {}, sql |-> "-", bound |-> 0, pos |-> "ready",
     cur |-> <<>>, shape |-> "ok", touched |-> FALSE, passes |-> 0,
     first |-> NoPass, latest |-> NoPass]

\* A result that ends a pass: step returned false or an error was signalled.
Terminal(entry) == entry[1] # "true"

\* What sqlite3_step answers for the compiled statement of o, <<result, pos
\* after, table after>>: a halted statement starts over.
EngineRun(o) ==
    LET matching == o.bound # 0 /\ o.bound \in o.table
    IN IF o.sql = "insert"
       THEN IF matching THEN <<SQLITE_CONSTRAINT, "failed", o.table>>
            ELSE <<SQLITE_DONE, "done", o.table \cup ({o.bound} \ {0})>>
       ELSE IF o.pos # "row" /\ matching THEN <<SQLITE_ROW, "row", o.table>>
       ELSE <<SQLITE_DONE, "done", o.table>>

\* What sqlite3_bind_* answers: a statement that was stepped and not reset
\* cannot be bound; the statements have one parameter.
EngineBind(o, idx) ==
    IF o.pos # "ready" THEN SQLITE_MISUSE
    ELSE IF idx # 1 THEN SQLITE_RANGE
    ELSE SQLITE_OK

\* What sqlite3_reset answers: the error of the failed step once more.
EngineReset(o) == IF o.pos = "failed" THEN SQLITE_CONSTRAINT ELSE SQLITE_OK

\* The pass so far with one more result, if a pass can have one more.
Extended(o, entry) ==
    IF Len(o.cur) >= MaxPassLen THEN {}
    ELSE {[o EXCEPT !.cur = Append(@, entry),
                    !.shape = IF o.cur # <<>> /\ Terminal(o.cur[Len(o.cur)]) THEN "bad" ELSE @]}

\* What the caller sees of the last operation: the value returned (with the
\* column value of the row, which is the bound value) or the errorCode.
Seen(o, l) ==
    IF l.outcome = "return" THEN <<l.ret, IF l.ret = "true" THEN o.bound ELSE 0>>
    ELSE <<l.code, 0>>

ResetCalls(evs) == {i \in 1..Len(evs) : evs[i].fn = "sqlite3_reset"}

\* reset ends the pass: a pass of the right shape that ended goes on record.
PassEnded(o) ==
    LET whole == o.cur # <<>> /\ Terminal(o.cur[Len(o.cur)]) /\ o.shape = "ok"
        n == IF o.passes = 0 THEN 1 ELSE 2
        rec == [n |-> n, bound |-> o.bound, data |-> o.table,
                touched |-> o.touched, seq |-> o.cur]
    IN IF whole
       THEN [o EXCEPT !.cur = <<>>, !.shape = "ok", !.touched = FALSE, !.passes = n,
                      !.first = IF o.passes = 0 THEN rec ELSE @, !.latest = rec]
       ELSE [o EXCEPT !.cur = <<>>, !.shape = "ok", !.touched = FALSE, !.latest = NoPass]

ObservePasses(o, evs, l, e, e2) ==
    LET p == [o EXCEPT !.latest = NoPass]
    IN IF l.outcome \in {"assert", "crash"} THEN {p}
       ELSE CASE l.op = "open" ->
                 IF l.was = nullptr /\ l.outcome = "return" THEN {p} ELSE {}
              [] l.op = "execute" ->
                 IF l.outcome = "throw" THEN {p}
                 ELSE {[p EXCEPT !.table = t, !.touched = @ \/ t # o.table] :
                          t \in SUBSET PassValues}
              [] l.op = "prepare" ->
                 IF l.outcome = "throw" THEN {p}
                 ELSE {[WatchPasses EXCEPT !.table = o.table, !.sql = k] :
                          k \in IF evs[1].out = nullptr THEN {"-"} ELSE SqlTexts}
              [] l.op = "bind" ->
                 IF evs[1].res # EngineBind(o, evs[1].idx) THEN {}
                 ELSE IF l.outcome = "return"
                 THEN {[p EXCEPT !.bound = evs[1].val,
                                 !.shape = IF o.cur # <<>> THEN "bad" ELSE @]}
                 ELSE Extended([p EXCEPT !.shape = IF o.cur # <<>> THEN "bad" ELSE @],
                               Seen(o, l))
              [] l.op = "step" ->
                 IF evs[1].res # EngineRun(o)[1] THEN {}
                 ELSE Extended([p EXCEPT !.pos = EngineRun(o)[2], !.table = EngineRun(o)[3]],
                               Seen(o, l))
              [] l.op = "reset" ->
                 IF \E i \in ResetCalls(evs) : evs[i].res # EngineReset(o) THEN {}
                 ELSE {PassEnded([o EXCEPT !.pos = IF ResetCalls(evs) # {} THEN "ready" ELSE @])}
              [] OTHER -> {p}

\* What is observed after an operation: o before it; evs and l its events and
\* outcome; e and e2 the engine before and after it.  The set is empty when
\* the engine the program watches cannot have answered as evs says.
Observe(o, evs, l, e, e2) ==
    IF o.mode = "errors" THEN ObserveErrors(o, evs, l, e, e2)
    ELSE IF o.mode = "passes" THEN ObservePasses(o, evs, l, e, e2)
    ELSE {o}

\* -------------------------------------------------------------------- Init
\* Every Connection and Statement has been constructed and nothing was called.
Constructed ==
    /\ hdr \in Headers
    /\ alive = [o \in Conns \cup Stmts |-> TRUE]
    /\ m_db = [c \in Conns |-> nullptr]
    /\ m_stmt = [s \in Stmts |-> nullptr]
    /\ engine = [dbLive |-> {}, stmtLive |-> {},
                 stmtDb |-> [t \in StmtHandles |-> nullptr],
                 closed |-> {}, twice |-> {}, nullDeleted |-> FALSE]
    /\ dbOwner = [h \in DbHandles |-> "-"]
    /\ events = <<>>
    /\ last = Done("main", "-", nullptr, "return", "-", "-")
    /\ halted = FALSE
    /\ abandoned = [h \in DbHandles |-> "-"]

Init == Constructed /\ obs = Unobserved

\* ------------------------------------------------------------- Connection
\* What sqlite3_open can answer: success with a new session; failure with a
\* session that still has to be closed; failure with no session at all.
OpenAnswers ==
    {<<SQLITE_OK, "fresh">>, <<SQLITE_CANTOPEN, "fresh">>, <<SQLITE_NOMEM, "null">>}

\* Mutant of OpenEvents: the failure is thrown before the raw session is
\* wrapped in the local unique_ptr.
OpenEventsLeak(old, result, raw) ==
    IF result # SQLITE_OK
    THEN <<Ev("sqlite3_errmsg", raw)>>
    ELSE <<Ev("store", raw)>> \o (IF old = nullptr THEN <<>> ELSE <<Ev("sqlite3_close", old)>>)

\* Mutant of OpenEvents: a failed open also lets go of the session held so far.
OpenEventsReleaseOld(old, result, raw) ==
    IF result # SQLITE_OK
    THEN <<Ev("sqlite3_errmsg", raw)>>
            \o (IF raw = nullptr THEN <<>> ELSE <<Ev("sqlite3_close", raw)>>)
            \o (IF old = nullptr THEN <<>> ELSE <<Ev("sqlite3_close", old)>>)
    ELSE <<Ev("store", raw)>> \o (IF old = nullptr THEN <<>> ELSE <<Ev("sqlite3_close", old)>>)

\* Connection::open after the native call: the events up to the return or throw.
OpenEvents(old, result, raw) ==
    IF result # SQLITE_OK
    THEN <<Ev("sqlite3_errmsg", raw)>> \o Deleter("sqlite3_close", raw)
    ELSE MoveAssign("sqlite3_close", old, raw)

\* Mutant of OpenStored: the raw session is stored before the result is looked at.
OpenStoredAlways(old, result, raw) == raw

\* The handle m_db holds when open returns or throws.
OpenStored(old, result, raw) == IF result # SQLITE_OK THEN old ELSE raw

Open(c) ==
    /\ ~halted /\ alive[c]
    /\ \E a \in OpenAnswers :
         /\ a[2] = "fresh" => FreeDb(engine) # {}
         /\ LET result == a[1]
                raw == IF a[2] = "fresh" THEN Min(FreeDb(engine)) ELSE nullptr
                old == m_db[c]
                evs == <<EvOut("sqlite3_open", nullptr, raw, result)>>
                          \o OpenEvents(old, result, raw)
            IN /\ events' = evs
               /\ engine' = ApplyEvents(evs, engine)
               /\ m_db' = [m_db EXCEPT ![c] = OpenStored(old, result, raw)]
               /\ dbOwner' = OwnerAfter(engine', raw, c)
               /\ abandoned' = AbandonedAfter(engine',
                                   IF result = SQLITE_OK /\ old # nullptr /\ HeldOn(old) # {}
                                   THEN {old} ELSE {}, "open")
               /\ last' = Done("open", c, old,
                               IF result = SQLITE_OK THEN "return" ELSE "throw",
                               IF result = SQLITE_OK THEN "-" ELSE result, "-")
    /\ UNCHANGED <<hdr, alive, m_stmt, halted>>
    /\ obs' \in Observe(obs, events', last', engine, engine')

CreateInMemory(c) == Open(c)

\* ~Connection(): the member m_db is destroyed.  A Statement that still holds
\* a compiled statement on a session of this Connection outlives it.
DestroyConnection(c) ==
    /\ ~halted /\ alive[c]
    /\ LET evs == Deleter("sqlite3_close", m_db[c])
       IN /\ events' = evs
          /\ engine' = ApplyEvents(evs, engine)
    /\ alive' = [alive EXCEPT ![c] = FALSE]
    /\ m_db' = [m_db EXCEPT ![c] = nullptr]
    /\ dbOwner' = OwnerAfter(engine', nullptr, c)
    /\ abandoned' = AbandonedAfter(engine',
                        {h \in DbHandles : dbOwner[h] = c /\ HeldOn(h) # {}}, "~Connection")
    /\ last' = Done("~Connection", c, m_db[c], "return", "-", "-")
    /\ UNCHANGED <<hdr, m_stmt, halted>>
    /\ obs' \in Observe(obs, events', last', engine, engine')

\* Connection(): m_db(nullptr, sqlite3_close), in the storage of a destroyed one.
\* It is a new Connection: the sessions the destroyed one left open are not its.
ConstructConnection(c) ==
    /\ ~halted /\ ~alive[c]
    /\ alive' = [alive EXCEPT ![c] = TRUE]
    /\ m_db' = [m_db EXCEPT ![c] = nullptr]
    /\ dbOwner' = [h \in DbHandles |-> IF dbOwner[h] = c THEN "-" ELSE dbOwner[h]]
    /\ events' = <<>>
    /\ last' = Done("Connection", c, nullptr, "return", "-", "-")
    /\ UNCHANGED <<hdr, m_stmt, engine, abandoned, halted>>
    /\ obs' \in Observe(obs, events', last', engine, engine')

\* What sqlite3_exec answers on a valid session.
ExecAnswers == {SQLITE_OK, SQLITE_ERROR}

\* Connection::execute after assert(m_db) passed.
ExecuteEvents(h, result) ==
    <<EvRes("sqlite3_exec", h, result)>>
        \o (IF result # SQLITE_OK THEN <<Ev("sqlite3_errmsg", h)>> ELSE <<>>)

\* Mutant of AssertHolds: no check of the handle before the native call.
AssertMissing(p) == TRUE

\* assert(p): the operation goes on only when the unique_ptr holds a handle.
AssertHolds(p) == p # nullptr

\* execute, and the transaction commands, which forward to it (op names the
\* public operation called).
ExecuteAs(op, c) ==
    /\ ~halted /\ alive[c]
    /\ IF ~AssertHolds(m_db[c])
       THEN /\ events' = <<>>
            /\ last' = Done(op, c, m_db[c], "assert", "-", "-")
            /\ halted' = TRUE
       ELSE \E result \in ExecAnswers :
            /\ events' = ExecuteEvents(m_db[c], result)
            /\ last' = Done(op, c, m_db[c],
                            IF result = SQLITE_OK THEN "return" ELSE "throw",
                            IF result = SQLITE_OK THEN "-" ELSE result, "-")
            /\ halted' = FALSE
    /\ UNCHANGED <<hdr, alive, m_db, m_stmt, engine, dbOwner, abandoned>>
    /\ obs' \in Observe(obs, events', last', engine, engine')

Execute(c) == ExecuteAs("execute", c)

\* beginTransaction / rollbackTransaction / commitTransaction: each is
\* execute(<its control statement>) and nothing else (headers/cppsqlite.h only).
Transaction(c) == hdr = NewHeader /\ ExecuteAs("transaction", c)

\* How a call without an assert ends when it hands the engine a null handle:
\* the engine's answer on a handle is outside its contract, the process may
\* also die in the call.
NullOutcomes == {"return", "crash"}

\* lastRowId (rowid in the older header): no assert, m_db.get() goes to the engine.
LastRowId(c) ==
    /\ ~halted /\ alive[c]
    /\ events' = <<Ev("sqlite3_last_insert_rowid", m_db[c])>>
    /\ \E o \in (IF m_db[c] = nullptr THEN NullOutcomes ELSE {"return"}) :
         /\ last' = Done("lastRowId", c, m_db[c], o, "-",
                         IF o = "return" THEN "rowid" ELSE "-")
         /\ halted' = (o = "crash")
    /\ UNCHANGED <<hdr, alive, m_db, m_stmt, engine, dbOwner, abandoned>>
    /\ obs' \in Observe(obs, events', last', engine, engine')

\* -------------------------------------------------------------- Statement
\* What sqlite3_prepare_v2 can answer on session db: success with a compiled
\* statement; success with none (empty SQL); failure with none; failure with
\* a partially compiled one that still has to be finalized.  On a null
\* session it answers SQLITE_MISUSE with none.
PrepareAnswers(db) ==
    IF db = nullptr
    THEN {<<SQLITE_MISUSE, "null">>}
    ELSE {<<SQLITE_OK, "fresh">>, <<SQLITE_OK, "null">>,
          <<SQLITE_ERROR, "null">>, <<SQLITE_ERROR, "fresh">>}

\* Mutant of PrepareEvents: the local handle is not moved from, so its
\* destructor finalizes the statement that was just stored.
PrepareEventsFinalizeStored(old, db, result, raw) ==
    IF result # SQLITE_OK
    THEN <<Ev("sqlite3_errmsg", db)>> \o Deleter("sqlite3_finalize", raw)
    ELSE MoveAssign("sqlite3_finalize", old, raw) \o Deleter("sqlite3_finalize", raw)

\* Statement::prepare after the native call.
PrepareEvents(old, db, result, raw) ==
    IF result # SQLITE_OK
    THEN <<Ev("sqlite3_errmsg", db)>> \o Deleter("sqlite3_finalize", raw)
    ELSE MoveAssign("sqlite3_finalize", old, raw)

\* Mutant of PrepareStored: the raw statement is stored before the result is
\* looked at.
PrepareStoredAlways(old, result, raw) == raw

\* The handle m_stmt holds when prepare returns or throws.
PrepareStored(old, result, raw) == IF result # SQLITE_OK THEN old ELSE raw

Prepare(s, c) ==
    /\ ~halted /\ alive[s] /\ alive[c]
    /\ \E a \in PrepareAnswers(m_db[c]) :
         /\ a[2] = "fresh" => FreeStmt(engine) # {}
         /\ LET result == a[1]
                db == m_db[c]
                raw == IF a[2] = "fresh" THEN Min(FreeStmt(engine)) ELSE nullptr
                old == m_stmt[s]
                evs == <<EvOut("sqlite3_prepare_v2", db, raw, result)>>
                          \o PrepareEvents(old, db, result, raw)
            IN /\ events' = evs
               /\ engine' = ApplyEvents(evs, engine)
               /\ m_stmt' = [m_stmt EXCEPT ![s] = PrepareStored(old, result, raw)]
               /\ last' = [Done("prepare", s, old,
                                IF result = SQLITE_OK THEN "return" ELSE "throw",
                                IF result = SQLITE_OK THEN "-" ELSE result, "-")
                           EXCEPT !.stale = StaleIn(evs, engine)]
    /\ UNCHANGED <<hdr, alive, m_db, dbOwner, abandoned, halted>>
    /\ obs' \in Observe(obs, events', last', engine, engine')

\* The bind overloads each header declares.
BindKinds(h) == IF h = NewHeader THEN {"int", "int64", "text"} ELSE {"int", "text"}

\* The parameter number handed to the engine: ++index in headers/cppsqlite.h,
\* the caller's index as it is in cppsqlite/headers/cppsqlite.h.
NativeIndex(h, index) == IF h = NewHeader THEN index + 1 ELSE index

BindAnswers == {SQLITE_OK, SQLITE_RANGE, SQLITE_MISUSE}

\* The failure path shared by bind, step and reset:
\* sqlite3_errmsg(sqlite3_db_handle(m_stmt.get())).
StmtErrmsg(t) ==
    <<EvOut("sqlite3_db_handle", t, IF t = nullptr THEN nullptr ELSE engine.stmtDb[t], "-"),
      Ev("sqlite3_errmsg", IF t = nullptr THEN nullptr ELSE engine.stmtDb[t])>>

\* Statement::bind after assert(m_stmt) passed.
BindEvents(h, kind, t, index, value, result) ==
    <<EvArg("sqlite3_bind_" \o kind, t, NativeIndex(h, index), value, result)>>
        \o (IF result # SQLITE_OK THEN StmtErrmsg(t) ELSE <<>>)

Bind(s, kind, index, value) ==
    /\ ~halted /\ alive[s] /\ kind \in BindKinds(hdr)
    /\ IF ~AssertHolds(m_stmt[s])
       THEN /\ events' = <<>>
            /\ last' = [Done("bind", s, m_stmt[s], "assert", "-", "-")
                        EXCEPT !.idx = index, !.val = value]
            /\ halted' = TRUE
       ELSE \E result \in BindAnswers :
            /\ events' = BindEvents(hdr, kind, m_stmt[s], index, value, result)
            /\ last' = [Done("bind", s, m_stmt[s],
                             IF result = SQLITE_OK THEN "return" ELSE "throw",
                             IF result = SQLITE_OK THEN "-" ELSE result, "-")
                        EXCEPT !.idx = index, !.val = value,
                               !.stale = StaleIn(events', engine)]
            /\ halted' = FALSE
    /\ UNCHANGED <<hdr, alive, m_db, m_stmt, engine, dbOwner, abandoned>>
    /\ obs' \in Observe(obs, events', last', engine, engine')

\* What sqlite3_step answers.
StepAnswers == {SQLITE_ROW, SQLITE_DONE, SQLITE_BUSY, SQLITE_ERROR, SQLITE_CONSTRAINT}

\* Mutant of StepOutcome: every result other than a row ends the iteration.
StepOutcomeSwallows(result) ==
    IF result = SQLITE_ROW THEN <<"return", "-", "true">> ELSE <<"return", "-", "false">>

\* Statement::step: <<outcome, errorCode, returned value>> for a native result.
StepOutcome(result) ==
    IF result = SQLITE_ROW THEN <<"return", "-", "true">>
    ELSE IF result = SQLITE_DONE THEN <<"return", "-", "false">>
    ELSE <<"throw", result, "-">>

\* Mutant of StepEvents: a busy engine is asked once more before the error is
\* signalled.
StepEventsRetry(t, result) ==
    <<EvRes("sqlite3_step", t, result)>>
        \o (IF result = SQLITE_BUSY THEN <<EvRes("sqlite3_step", t, result)>> ELSE <<>>)
        \o (IF StepOutcome(result)[1] = "throw" THEN StmtErrmsg(t) ELSE <<>>)

\* Statement::step after assert(m_stmt) passed.
StepEvents(t, result) ==
    <<EvRes("sqlite3_step", t, result)>>
        \o (IF StepOutcome(result)[1] = "throw" THEN StmtErrmsg(t) ELSE <<>>)

Step(s) ==
    /\ ~halted /\ alive[s]
    /\ IF ~AssertHolds(m_stmt[s])
       THEN /\ events' = <<>>
            /\ last' = Done("step", s, m_stmt[s], "assert", "-", "-")
            /\ halted' = TRUE
       ELSE \E result \in StepAnswers :
            /\ events' = StepEvents(m_stmt[s], result)
            /\ last' = [Done("step", s, m_stmt[s], StepOutcome(result)[1],
                             StepOutcome(result)[2], StepOutcome(result)[3])
                        EXCEPT !.stale = StaleIn(events', engine)]
            /\ halted' = FALSE
    /\ UNCHANGED <<hdr, alive, m_db, m_stmt, engine, dbOwner, abandoned>>
    /\ obs' \in Observe(obs, events', last', engine, engine')

\* What sqlite3_reset answers: SQLITE_OK, or once more the error the last
\* sqlite3_step failed with; on a null statement it is a no-op answering
\* SQLITE_OK, or the process dies in the call.
ResetAnswers(t) ==
    IF t = nullptr THEN {SQLITE_OK, "crash"}
    ELSE {SQLITE_OK, SQLITE_ERROR, SQLITE_CONSTRAINT}

\* Mutant of ResetEvents: reset leaves the compiled statement as it is.
ResetEventsNoCall(t, result) == <<>>

\* Statement::reset: the native call and, when it fails, the message lookup.
ResetEvents(t, result) ==
    <<EvRes("sqlite3_reset", t, IF result = "crash" THEN "-" ELSE result)>>
        \o (IF result \notin {SQLITE_OK, "crash"} THEN StmtErrmsg(t) ELSE <<>>)

\* Statement::reset: no assert, m_stmt.get() goes to the engine.
Reset(s) ==
    /\ ~halted /\ alive[s]
    /\ \E result \in ResetAnswers(m_stmt[s]) :
         /\ events' = ResetEvents(m_stmt[s], result)
         /\ last' = [Done("reset", s, m_stmt[s],
                          IF result = SQLITE_OK THEN "return"
                          ELSE IF result = "crash" THEN "crash" ELSE "throw",
                          IF result \in {SQLITE_OK, "crash"} THEN "-" ELSE result, "-")
                     EXCEPT !.stale = StaleIn(events', engine)]
         /\ halted' = (result = "crash")
    /\ UNCHANGED <<hdr, alive, m_db, m_stmt, engine, dbOwner, abandoned>>
    /\ obs' \in Observe(obs, events', last', engine, engine')

\* Mutant of GetterCalls: getBlob asks for the pointer first and the size after.
GetterCallsPointerFirst(h) ==
    [getInt |-> <<"sqlite3_column_int">>,
     getString |-> <<"sqlite3_column_text">>]
    @@ (IF h = NewHeader
        THEN [getInt64 |-> <<"sqlite3_column_int64">>,
              getBlob |-> <<"sqlite3_column_blob", "sqlite3_column_bytes">>]
        ELSE [getInt64 |-> <<"sqlite3_column_int64">>])

\* The column getters each header declares, with the native calls each makes
\* in program order.
GetterCalls(h) ==
    [getInt |-> <<"sqlite3_column_int">>,
     getString |-> <<"sqlite3_column_text">>]
    @@ (IF h = NewHeader
        THEN [getInt64 |-> <<"sqlite3_column_int64">>,
              getBlob |-> <<"sqlite3_column_bytes", "sqlite3_column_blob">>]
        ELSE [getInt64 |-> <<"sqlite3_column_int64">>])

\* What the text / blob pointer of the column is: null (a NULL value) or data.
ColumnPointers == {"null", "data"}

\* The sizes, in bytes, of the column values the engine holds.
ColumnSizes == {0, 2}

\* What the engine answers for a column, <<pointer, size in bytes>>: a NULL
\* value or a zero-length blob (null, 0); bytes (data, n); an empty text, whose
\* pointer is to the terminating zero (data, 0); a value it ran out of memory
\* converting (null, n).
ColumnAnswers(getter) ==
    {a \in ColumnPointers \X ColumnSizes :
        a[1] = "data" /\ a[2] = 0 => getter = "getString"}

\* The pointer a column call returns: null, or some address that is not.
Address(ptr) == IF ptr = "null" THEN nullptr ELSE nullptr + 1

\* What a column call returns: sqlite3_column_bytes the size, sqlite3_column_text
\* and sqlite3_column_blob the pointer, sqlite3_column_int / int64 the number.
ColumnReturn(fn, ptr, n) ==
    IF fn = "sqlite3_column_bytes" THEN n
    ELSE IF fn \in {"sqlite3_column_text", "sqlite3_column_blob"} THEN Address(ptr)
    ELSE nullptr

\* getString / getBlob: str ? str : std::string().
TextResult(ptr) == IF ptr = "null" THEN "empty" ELSE "data"

\* Mutant of TextSize: the std::string is built from the pointer and the size
\* without looking at the pointer.
TextSizeUnchecked(getter, ptr, n) == n

\* The size of the std::string getString / getBlob return: nothing for a null
\* pointer; std::string(data, dataSize) has dataSize bytes, std::string(str)
\* the bytes up to the terminating zero.
TextSize(getter, ptr, n) == IF ptr = "null" THEN 0 ELSE n

\* getInt, getInt64, getString, getBlob on column 0: no assert.
Get(s, getter) ==
    /\ ~halted /\ alive[s] /\ getter \in DOMAIN GetterCalls(hdr)
    /\ \E o \in (IF m_stmt[s] = nullptr THEN NullOutcomes ELSE {"return"}) :
       \E a \in (IF m_stmt[s] = nullptr \/ getter \notin {"getString", "getBlob"}
                 THEN {<<"null", 0>>} ELSE ColumnAnswers(getter)) :
         /\ events' = [i \in 1..Len(GetterCalls(hdr)[getter]) |->
                          [EvArg(GetterCalls(hdr)[getter][i], m_stmt[s], 0, 0, "-")
                           EXCEPT !.out = ColumnReturn(GetterCalls(hdr)[getter][i], a[1], a[2])]]
         /\ last' = [Done(getter, s, m_stmt[s], o, "-",
                          IF o = "crash" THEN "-"
                          ELSE IF getter \in {"getString", "getBlob"} THEN TextResult(a[1])
                          ELSE "int")
                     EXCEPT !.stale = StaleIn(events', engine),
                            !.len = IF o = "crash" \/ getter \notin {"getString", "getBlob"}
                                    THEN -1 ELSE TextSize(getter, a[1], a[2])]
         /\ halted' = (o = "crash")
    /\ UNCHANGED <<hdr, alive, m_db, m_stmt, engine, dbOwner, abandoned>>
    /\ obs' \in Observe(obs, events', last', engine, engine')

\* ~Statement(): the member m_stmt is destroyed.
DestroyStatement(s) ==
    /\ ~halted /\ alive[s]
    /\ LET evs == Deleter("sqlite3_finalize", m_stmt[s])
       IN /\ events' = evs
          /\ engine' = ApplyEvents(evs, engine)
    /\ alive' = [alive EXCEPT ![s] = FALSE]
    /\ m_stmt' = [m_stmt EXCEPT ![s] = nullptr]
    /\ last' = [Done("~Statement", s, m_stmt[s], "return", "-", "-")
                EXCEPT !.stale = StaleIn(events', engine)]
    /\ UNCHANGED <<hdr, m_db, dbOwner, abandoned, halted>>
    /\ obs' \in Observe(obs, events', last', engine, engine')

\* Statement(): m_stmt(nullptr, sqlite3_finalize), in the storage of a destroyed one.
ConstructStatement(s) ==
    /\ ~halted /\ ~alive[s]
    /\ alive' = [alive EXCEPT ![s] = TRUE]
    /\ m_stmt' = [m_stmt EXCEPT ![s] = nullptr]
    /\ events' = <<>>
    /\ last' = Done("Statement", s, nullptr, "return", "-", "-")
    /\ UNCHANGED <<hdr, m_db, engine, dbOwner, abandoned, halted>>
    /\ obs' \in Observe(obs, events', last', engine, engine')

\* -------------------------------------------------------------------- Next
Next ==
    \/ \E c \in Conns : Open(c)
    \/ \E c \in Conns : CreateInMemory(c)
    \/ \E c \in Conns : Execute(c)
    \/ \E c \in Conns : Transaction(c)
    \/ \E c \in Conns : LastRowId(c)
    \/ \E c \in Conns : DestroyConnection(c)
    \/ \E c \in Conns : ConstructConnection(c)
    \/ \E s \in OneStmt, c \in Conns : Prepare(s, c)
    \/ \E s \in OneStmt, k \in {"int", "int64", "text"}, i \in Indices :
          \E v \in BindValues(k) : Bind(s, k, i, v)
    \/ \E s \in OneStmt : Step(s)
    \/ \E s \in OneStmt : Reset(s)
    \/ \E s \in OneStmt, g \in {"getInt", "getInt64", "getString", "getBlob"} : Get(s, g)
    \/ \E s \in OneStmt : DestroyStatement(s)
    \/ \E s \in OneStmt : ConstructStatement(s)

Spec == Init /\ [][Next]_vars

\* A program that only acquires and releases handles, with both Connections
\* and both Statements: open, createInMemory, prepare (each also on an object
\* that holds a handle) and the destructors.  The operations are the same in
\* both headers.
InitOwners == Init /\ hdr = NewHeader

NextOwners ==
    \/ \E c \in Conns : Open(c)
    \/ \E c \in Conns : CreateInMemory(c)
    \/ \E c \in Conns : DestroyConnection(c)
    \/ \E s \in Stmts, c \in Conns : Prepare(s, c)
    \/ \E s \in Stmts : DestroyStatement(s)

SpecOwners == InitOwners /\ [][NextOwners]_vars

\* A program with one Connection and one Statement that catches the
\* SqlExceptions of open, execute, prepare, bind and step and goes on, keeping
\* the last one; a re-open closes the session an exception came from.
InitErrors == Constructed /\ hdr = NewHeader /\ obs = WatchErrors

NextErrors ==
    \/ Open("c1")
    \/ Execute("c1")
    \/ Prepare("s1", "c1")
    \/ \E i \in Indices : Bind("s1", "int", i, 41)
    \/ Step("s1")
    \/ DestroyStatement("s1")

SpecErrors == InitErrors /\ [][NextErrors]_vars

\* A program that opens an in-memory database, prepares statements on it and
\* runs passes over them: bind(0, 41), step, reset, with execute changing the
\* table at any moment.
InitPasses == Constructed /\ hdr = NewHeader /\ obs = WatchPasses

NextPasses ==
    \/ CreateInMemory("c1")
    \/ Execute("c1")
    \/ Prepare("s1", "c1")
    \/ Bind("s1", "int", 0, 41)
    \/ Step("s1")
    \/ Reset("s1")

SpecPasses == InitPasses /\ [][NextPasses]_vars

\* ------------------------------------------------------------------ claims
OpenThrew == last.op = "open" /\ last.outcome = "throw"

OpenReturned == last.op = "open" /\ last.outcome = "return"

Releases == {"sqlite3_close", "sqlite3_finalize"}

ReleaseOf(op) == IF op = "open" THEN "sqlite3_close" ELSE "sqlite3_finalize"

\* C1, as claimed: after an open that signals an error the Connection's handle
\* is absent, whatever it held before; a successful open leaves the Connection
\* holding exactly the new valid handle.
C1_FailedOpenLeavesAbsent ==
    /\ OpenThrew => m_db[last.obj] = nullptr
    /\ OpenReturned => /\ events[1].out # nullptr
                       /\ m_db[last.obj] = events[1].out
                       /\ m_db[last.obj] \in engine.dbLive \ engine.closed

\* C1, amended: after an open that signals an error the Connection holds what
\* it held when open was called: nothing if it held nothing, and otherwise the
\* handle of the earlier successful open, still open and never passed to
\* sqlite3_close; a successful open leaves the Connection holding exactly the
\* new valid handle.
C1_FailedOpenKeepsHandle ==
    /\ OpenThrew => /\ m_db[last.obj] = last.was
                    /\ last.was # nullptr => last.was \in engine.dbLive \ engine.closed
    /\ OpenReturned => /\ events[1].out # nullptr
                       /\ m_db[last.obj] = events[1].out
                       /\ m_db[last.obj] \in engine.dbLive \ engine.closed

\* An open failed on a Connection that held a handle from an earlier open.
C1_Witness == OpenThrew /\ last.was # nullptr

\* C2: no session handle is passed to sqlite3_close twice, no compiled
\* statement to sqlite3_finalize twice, and a null handle to neither.
C2_ReleasedAtMostOnce ==
    /\ engine.twice = {}
    /\ ~engine.nullDeleted
    /\ \A i \in 1..Len(events) : events[i].fn \in Releases => events[i].h # nullptr

\* A re-open replaced, and released, the session held so far.
C2_Witness ==
    /\ OpenReturned /\ last.was # nullptr
    /\ \E i \in 1..Len(events) : events[i] = Ev("sqlite3_close", last.was)

\* The sessions opened by Connection c that are still open.
OpenSessionsOf(c) == {h \in engine.dbLive : dbOwner[h] = c}

\* C3, as claimed: once a Connection is destroyed, and no Statement prepared
\* against it outlived it, no session it opened and no compiled statement on
\* such a session is live.
C3_NoLeakInOrder ==
    \A c \in Conns :
        (~alive[c] /\ \A h \in OpenSessionsOf(c) : abandoned[h] # "~Connection")
            => /\ OpenSessionsOf(c) = {}
               /\ \A t \in engine.stmtLive : dbOwner[engine.stmtDb[t]] # c

\* C3, amended: once a Connection is destroyed, the only sessions it opened
\* that are still open are those it was destroyed or successfully re-opened
\* under, i.e. while a Statement still held a compiled statement on them; with
\* no such re-open and every Statement destroyed first, nothing stays live.
C3_NoLeakUnlessAbandoned ==
    \A c \in Conns :
        ~alive[c] =>
            /\ \A h \in OpenSessionsOf(c) : abandoned[h] \in {"open", "~Connection"}
            /\ \A t \in engine.stmtLive :
                   dbOwner[engine.stmtDb[t]] = c => abandoned[engine.stmtDb[t]] # "-"

\* A Connection was destroyed holding a session, and the engine holds no live
\* session or compiled statement any more.
C3_Witness ==
    /\ last.op = "~Connection" /\ last.was # nullptr
    /\ engine.dbLive = {} /\ engine.stmtLive = {}

\* C4: when open or prepare signals an error, the handle the failed native
\* call produced has been passed to sqlite3_close / sqlite3_finalize, is not
\* live any more and is held by no Connection or Statement.
C4_FailedHandleReleased ==
    (last.op \in {"open", "prepare"} /\ last.outcome = "throw" /\ events[1].out # nullptr)
        => /\ \E i \in 2..Len(events) : events[i] = Ev(ReleaseOf(last.op), events[1].out)
           /\ last.op = "open" => /\ events[1].out \notin engine.dbLive
                                  /\ \A c \in Conns : m_db[c] # events[1].out
           /\ last.op = "prepare" => /\ events[1].out \notin engine.stmtLive
                                     /\ \A s \in Stmts : m_stmt[s] # events[1].out

\* sqlite3_open failed and produced a session.
C4_Witness == OpenThrew /\ events[1].out # nullptr

\* C5, as claimed: no Statement operation is applied to a compiled statement
\* whose session has been passed to sqlite3_close.
C5_NoUseAfterRelease == last.stale = {}

\* C5, amended: a Statement operation is applied to a compiled statement whose
\* session has been passed to sqlite3_close only when the caller destroyed or
\* successfully re-opened the Connection while a Statement still held a
\* compiled statement on that session; the code does not prevent that.
C5_StaleOnlyAfterAbandon ==
    \A h \in last.stale : abandoned[h] \in {"open", "~Connection"}

\* step ran on a compiled statement whose session its Connection had released.
C5_Witness == last.op = "step" /\ last.stale # {}

\* C6, as claimed: on a successful open / prepare on an object that holds a
\* handle, the old handle is released before the new one is installed.
C6_ReleasedBeforeInstalled ==
    (last.op \in {"open", "prepare"} /\ last.outcome = "return" /\ last.was # nullptr)
        => \E i, j \in 1..Len(events) :
               /\ i < j
               /\ events[i] = Ev(ReleaseOf(last.op), last.was)
               /\ events[j].fn = "store"

\* C6, amended: on a successful open / prepare on an object that holds a
\* handle, the native call first produces the new handle while the old one is
\* still held, then the new handle is installed, and then the old one is
\* released, once, before the operation returns.
C6_InstalledThenReleased ==
    (last.op \in {"open", "prepare"} /\ last.outcome = "return" /\ last.was # nullptr)
        => /\ Len(events) = 3
           /\ events[1].fn = (IF last.op = "open" THEN "sqlite3_open" ELSE "sqlite3_prepare_v2")
           /\ events[2] = Ev("store", events[1].out)
           /\ events[3] = Ev(ReleaseOf(last.op), last.was)
           /\ (IF last.op = "open" THEN m_db[last.obj] ELSE m_stmt[last.obj]) = events[1].out

\* A successful prepare on a Statement that held a compiled statement.
C6_Witness == last.op = "prepare" /\ last.outcome = "return" /\ last.was # nullptr

\* C7: bind(i, v) hands the engine parameter number i + 1 and value v.
C7_BindIsOneBased ==
    (last.op = "bind" /\ last.outcome # "assert")
        => /\ events[1].idx = last.idx + 1
           /\ events[1].val = last.val

\* C8: an operation that needs a handle its object does not hold ends in an
\* assertion failure, having handed the engine nothing.
C8_AbsentHandleAsserts ==
    /\ (/\ last.op \in {"execute", "transaction", "lastRowId", "bind", "step", "reset",
                        "getInt", "getInt64", "getString", "getBlob"}
        /\ last.was = nullptr)
           => last.outcome = "assert" /\ events = <<>>
    /\ (last.op = "prepare" /\ events # <<>>) => events[1].h # nullptr

\* C9: bind and step on a Statement that holds no compiled statement fail by
\* assertion before any native call.
C9_BindStepAssert ==
    (last.op \in {"bind", "step"} /\ last.was = nullptr)
        => last.outcome = "assert" /\ events = <<>> /\ halted

\* bind was called on a Statement that was never prepared.
C9_Witness == last.op = "bind" /\ last.was = nullptr

\* C10: step returns true exactly for SQLITE_ROW, false exactly for
\* SQLITE_DONE, and for every other native result signals an error carrying
\* that result.
C10_StepTranslatesResult ==
    (last.op = "step" /\ last.outcome # "assert")
        => /\ events[1].fn = "sqlite3_step"
           /\ events[1].res = SQLITE_ROW => last.outcome = "return" /\ last.ret = "true"
           /\ events[1].res = SQLITE_DONE => last.outcome = "return" /\ last.ret = "false"
           /\ events[1].res \notin {SQLITE_ROW, SQLITE_DONE}
                  => last.outcome = "throw" /\ last.code = events[1].res

\* step signalled the engine's error result.
C10_Witness == last.op = "step" /\ last.outcome = "throw" /\ last.code = SQLITE_BUSY

\* The result codes with which a native call reports success.
Successes == {SQLITE_OK, SQLITE_ROW, SQLITE_DONE}

\* The calls of the last operation whose result code the wrapper reads and
\* found to be a failure.
FailedCalls ==
    {i \in 1..Len(events) : events[i].res # "-" /\ events[i].res \notin Successes}

\* The sqlite3_close calls of the last operation that the engine refused
\* (SQLITE_BUSY): the session is still open after the call.
RefusedCloses ==
    {i \in 1..Len(events) : events[i].fn = "sqlite3_close" /\ events[i].h \in engine.dbLive}

\* No native function is called twice by one operation.
NoRetry == \A i, j \in 1..Len(events) : i < j => events[i].fn # events[j].fn

\* C11, as claimed: every non-success result of a native call, those of the
\* sqlite3_close / sqlite3_finalize calls of a replaced or destroyed handle
\* included, is signalled to the caller with that code, and no call is retried.
C11_EveryFailureSignalled ==
    /\ \A i \in FailedCalls : last.outcome = "throw" /\ last.code = events[i].res
    /\ RefusedCloses # {} => last.outcome = "throw" /\ last.code = SQLITE_BUSY
    /\ NoRetry

\* C11, amended: every non-success result of sqlite3_open, sqlite3_exec,
\* sqlite3_prepare_v2, sqlite3_bind_*, sqlite3_step and sqlite3_reset is
\* signalled to the caller with that code and no call is retried; the result
\* of a sqlite3_close / sqlite3_finalize call made when a handle is replaced
\* or its owner destroyed is discarded: the operation ends as it would have
\* with a successful release.
C11_FailureSignalledReleaseDiscarded ==
    /\ \A i \in FailedCalls : last.outcome = "throw" /\ last.code = events[i].res
    /\ NoRetry
    /\ last.op \in {"~Connection", "~Statement"} => last.outcome = "return"
    /\ last.op \in {"open", "prepare"}
           => (last.outcome = "throw") = (events[1].res # SQLITE_OK)

\* A re-open returned normally although the engine refused to close the
\* session it replaced.
C11_Witness == OpenReturned /\ RefusedCloses # {}

\* The call of the last operation that asked for the text / blob pointer.
PointerCall ==
    CHOOSE i \in 1..Len(events) :
        events[i].fn \in {"sqlite3_column_text", "sqlite3_column_blob"}

\* C13: getString and getBlob on a prepared Statement return the empty string
\* when the engine's text / blob pointer is null, without signalling an error
\* and without building the string from the null pointer; when the pointer is
\* not null, getBlob returns exactly the bytes sqlite3_column_bytes reported.
C13_NullPointerIsEmpty ==
    (last.op \in {"getString", "getBlob"} /\ last.was # nullptr)
        => /\ last.outcome = "return"
           /\ events[PointerCall].out = nullptr => last.ret = "empty" /\ last.len = 0
           /\ (last.op = "getBlob" /\ events[PointerCall].out # nullptr)
                  => /\ events[1].fn = "sqlite3_column_bytes"
                     /\ last.ret = "data"
                     /\ last.len = events[1].out

\* getBlob got a null pointer for a column the engine had reported bytes for.
C13_Witness ==
    /\ last.op = "getBlob" /\ last.was # nullptr
    /\ events[1].out > 0 /\ events[2].out = nullptr

\* C14: whenever prepare returns without signalling an error the Statement
\* holds a valid compiled statement, also when the engine reports success and
\* produces none (empty SQL).
C14_PrepareReturnsPrepared ==
    (last.op = "prepare" /\ last.outcome = "return")
        => m_stmt[last.obj] # nullptr /\ m_stmt[last.obj] \in engine.stmtLive

\* C17: getBlob asks the engine for the column's size and then for its
\* pointer, in that order, on the handle it holds and for the same column,
\* and makes no other native call.
C17_SizeBeforePointer ==
    last.op = "getBlob"
        => /\ Len(events) = 2
           /\ events[1].fn = "sqlite3_column_bytes"
           /\ events[2].fn = "sqlite3_column_blob"
           /\ events[1].h = last.was /\ events[2].h = last.was
           /\ events[1].idx = events[2].idx

\* getBlob returned the bytes of a column.
C17_Witness == last.op = "getBlob" /\ last.outcome = "return" /\ last.len > 0

\* C18: a prepare that signals an error leaves the Statement holding what it
\* held: a compiled statement held before is neither finalized nor replaced,
\* is still live, and bind / step still pass their assert; bind, step and
\* reset, however they end, leave the Statement holding the same handle.
C18_HandleUnchanged ==
    /\ (last.op = "prepare" /\ last.outcome = "throw")
           => /\ m_stmt[last.obj] = last.was
              /\ \A i \in 1..Len(events) :
                     /\ events[i].fn # "store"
                     /\ events[i].fn = "sqlite3_finalize" => events[i].h # last.was
              /\ last.was # nullptr => /\ last.was \in engine.stmtLive
                                       /\ AssertHolds(m_stmt[last.obj])
    /\ last.op \in {"bind", "step", "reset"}
           => /\ m_stmt[last.obj] = last.was
              /\ \A i \in 1..Len(events) : events[i].fn \notin Releases \cup {"store"}

\* prepare failed on a Statement that held a compiled statement, and the
\* engine had produced a statement that had to be finalized.
C18_Witness ==
    /\ last.op = "prepare" /\ last.outcome = "throw" /\ last.was # nullptr
    /\ events[1].out # nullptr

\* C16: a session handle a Connection holds is a live session and no other
\* Connection holds it; a compiled statement a Statement holds is live and no
\* other Statement holds it; no operation of a Statement calls sqlite3_close.
C16_ExclusiveOwners ==
    /\ \A c \in Conns : m_db[c] # nullptr
           => /\ m_db[c] \in engine.dbLive
              /\ \A d \in Conns \ {c} : m_db[d] # m_db[c]
    /\ \A s \in Stmts : m_stmt[s] # nullptr
           => /\ m_stmt[s] \in engine.stmtLive
              /\ \A t \in Stmts \ {s} : m_stmt[t] # m_stmt[s]
    /\ last.obj \in Stmts
           => \A i \in 1..Len(events) : events[i].fn # "sqlite3_close"

\* After a prepare both Statements hold a compiled statement on the same
\* session, and both Connections hold a session.
C16_Witness ==
    /\ last.op = "prepare" /\ last.outcome = "return"
    /\ \A c \in Conns : m_db[c] # nullptr
    /\ \A s \in Stmts : m_stmt[s] # nullptr
    /\ engine.stmtDb[m_stmt["s1"]] = engine.stmtDb[m_stmt["s2"]]

\* The call of the last operation that read the diagnostic message.
MessageCall == Min(ErrmsgCalls(events))

\* C15: when an operation signals an error, sqlite3_errmsg is called on the
\* session of the failing call, after that call and before any handle is
\* released or stored (for a failed open before the session is closed), with
\* no call in between that changes the session's text, so the message is the
\* text of the failing result; and the errorMessage of a caught SqlException
\* keeps reading as the text read then, whatever later calls leave in the
\* session and also once the session is closed.
C15_MessageCapturedAtFailure ==
    /\ last.outcome = "throw"
           => /\ ErrmsgCalls(events) # {}
              /\ events[1].res = last.code
              /\ events[MessageCall].h = SessionOf(events[1], engine)
              /\ \A j \in 2..(MessageCall - 1) : events[j].fn = "sqlite3_db_handle"
              /\ events[MessageCall].h # nullptr => obs.read = Text(last.code)
              /\ obs.caught.errorCode = last.code
    /\ obs.caught # NoException
           => MessageText(obs.caught, obs.diag, engine) = obs.read

\* The program holds an exception whose session has since answered another
\* call successfully: the session's text is no longer the one of the exception.
C15_Witness ==
    /\ obs.caught # NoException /\ last.outcome = "return"
    /\ obs.at \in engine.dbLive
    /\ obs.diag[obs.at] = "not an error"
    /\ obs.read # "not an error"

\* C12, as claimed: every pass (bind, step until false, reset) over a prepared
\* Statement with the same bound value produces the step results and column
\* values of the first pass.
C12_EveryPassRepeatsFirst ==
    (obs.latest # NoPass /\ obs.latest.bound = obs.first.bound)
        => obs.latest.seq = obs.first.seq

\* C12, amended: every pass over a prepared Statement that only reads, with
\* the same bound value and over data that is the same as in the first pass
\* and that nothing changed during either pass, produces the step results and
\* column values of the first pass, with no new prepare in between.
C12_QueryPassRepeatsFirst ==
    (/\ obs.latest # NoPass
     /\ obs.sql = "select"
     /\ obs.latest.bound = obs.first.bound
     /\ obs.latest.data = obs.first.data
     /\ ~obs.latest.touched /\ ~obs.first.touched)
        => obs.latest.seq = obs.first.seq

\* A later pass over the reading statement returned the row and then false,
\* as the first pass had.
C12_Witness ==
    /\ obs.latest.n = 2 /\ obs.sql = "select"
    /\ obs.latest.seq = <<<<"true", 41>>, <<"false", 0>>>>
    /\ obs.first.seq = obs.latest.seq
    /\ ~obs.latest.touched /\ ~obs.first.touched

====
